---- MODULE Spec2Model ----
(***************************************************************************)
(* The Streamlit application tlorans/teststreamlit: three scripts          *)
(* (Introduction.py, pages/01_..., pages/02_...) that Streamlit runs from  *)
(* top to bottom, in a fresh namespace, each time a widget changes.        *)
(*                                                                         *)
(* Numbers.  The scripts compute with Python floats.  The model computes   *)
(* with exact rationals [n |-> numerator, d |-> denominator] in lowest     *)
(* terms, d > 0.  A slider of step 0.01 is held as its number of           *)
(* hundredths.  The formatted outputs ('.2f') of the model and of the      *)
(* scripts agree on every slider position.                                 *)
(***************************************************************************)
EXTENDS Integers, Sequences, FiniteSets, TLC

VARIABLES
    page,     \* the script the session shows
    pc,       \* the block of the script that runs next
    w,        \* the session's widget values (kept across reruns)
    ns,       \* the script run's module namespace
    exc,      \* the exception that ended the run ("" when none)
    out,      \* what the run has displayed so far, in order
    eng,      \* a formula block applied to arguments of its own (SpecEngine)
    sess,     \* the sessions of several users, each with its own script runs
    memo      \* one finished run of a session, kept to compare later runs

vars == <<page, pc, w, ns, exc, out, eng, sess, memo>>

----------------------------------------------------------------------------
(* Rational arithmetic standing for Python's float arithmetic.             *)

Abs(x) == IF x < 0 THEN -x ELSE x

RECURSIVE Gcd(_, _)
Gcd(a, b) == IF b = 0 THEN a ELSE Gcd(b, a % b)

\* n/d in lowest terms with a positive denominator (d # 0).
Rat(n, d) ==
    LET g == Gcd(Abs(n), Abs(d))
        s == IF d < 0 THEN -1 ELSE 1
    IN  [n |-> (s * n) \div g, d |-> (s * d) \div g]

\* A name that no assignment has bound yet.
Unbound == [n |-> 0, d |-> 0]

Int2R(i)     == [n |-> i, d |-> 1]
Hundredths(k) == Rat(k, 100)

RAdd(a, b) == Rat(a.n * b.d + b.n * a.d, a.d * b.d)
RSub(a, b) == Rat(a.n * b.d - b.n * a.d, a.d * b.d)
RMul(a, b) == Rat(a.n * b.n, a.d * b.d)
RSq(a)     == RMul(a, a)
RIsZero(a) == a.n = 0
\* a / b for b # 0; Python raises ZeroDivisionError for b = 0 (see Div).
RQuot(a, b) == Rat(a.n * b.d, a.d * b.n)
\* a <= b and a < b: the integral parts first, then the fractional parts
\* (a product of a numerator and a denominator can exceed 32 bits).
RLeq(a, b) ==
    LET fa == a.n \div a.d
        fb == b.n \div b.d
    IN  fa < fb \/ (fa = fb /\ (a.n % a.d) * b.d <= (b.n % b.d) * a.d)
RLt(a, b)  == ~RLeq(b, a)

\* format(x, '.<digits>f'): x rounded to the nearest multiple of 10^-digits,
\* ties to even, as the number of such multiples.
RoundHalfEven(n, d) ==
    LET q == (2 * n + d) \div (2 * d)
    IN  IF (2 * n + d) % (2 * d) = 0 /\ q % 2 # 0 THEN q - 1 ELSE q

Fmt2(x) == RoundHalfEven(x.n * 100, x.d)
Fmt3(x) == RoundHalfEven(x.n * 1000, x.d)
\* format(x, '.2%'): 100 * x with two decimals, as hundredths of a percent.
FmtPct2(x) == RoundHalfEven(x.n * 10000, x.d)

One  == Int2R(1)
Half == Rat(1, 2)

----------------------------------------------------------------------------
(* Widgets.  A slider holds a multiple of its step, between its bounds.    *)

\* st.slider("Probability of State A", 0.0, 1.0, 0.5): float, step 0.01.
ProbAMin     == 0
ProbAMax     == 100
ProbADefault == 50
\* st.slider("", 0, 100, 50): int, step 1.
AbatementMin     == 0
AbatementMax     == 100
AbatementDefault == 50
\* st.slider(..., min_value=-0.1, max_value=0.1, value=0.02, step=0.01).
DeltaCMin     == -10
DeltaCMax     == 10
DeltaCDefault == 2

\* st.radio returns options[index]; the first option is the default.
IntroOptions  == <<"Higher in good times", "Higher in bad times">>
Page02Options == <<"Pays more in good times", "Pays more in bad times">>

Pages == {"Introduction", "page01", "page02"}

WidgetDefaults ==
    [prob_a |-> ProbADefault, radio |-> 1,
     abatement |-> AbatementDefault, delta_c |-> DeltaCDefault]

\* Where a key press or a drag to an end takes a slider standing at v.
SliderMoves(v, lo, hi) == ({v - 1, v + 1, lo, hi} \cap (lo..hi)) \ {v}

----------------------------------------------------------------------------
(* The namespace of a script run: every module-level name the modelled     *)
(* blocks assign.  A script run starts with none of them bound.            *)

EmptyNs ==
    [cf_a |-> Unbound, r_a |-> Unbound, cf_b |-> Unbound, r_b |-> Unbound,
     prob_a |-> Unbound, prob_b |-> Unbound,
     expected_cf |-> Unbound, expected_r |-> Unbound, price |-> Unbound,
     scenario |-> "",
     m_u |-> Unbound, m_d |-> Unbound, cf_u |-> Unbound, cf_d |-> Unbound,
     x_u |-> Unbound, x_d |-> Unbound,
     rf_inverse |-> Unbound, expected_x |-> Unbound, expected_m |-> Unbound,
     expected_return |-> Unbound, risk_premium |-> Unbound,
     abatement |-> Unbound, abatement_fraction |-> Unbound,
     transition_cost |-> Unbound, physical_damage |-> Unbound,
     gamma |-> Unbound, delta |-> Unbound, delta_c |-> Unbound,
     m_approx |-> Unbound]

IsBound(x) == x.d # 0

NoCall == [fn |-> "none"]

----------------------------------------------------------------------------
(* The formulas, as functions of the names they read.  Each returns the    *)
(* names it binds and exc, the exception it raised ("" when none): a       *)
(* Python float division raises ZeroDivisionError on a zero divisor, and   *)
(* the assignments after it are not performed.                             *)

\* Variants of TwoStatePrice, each with one slip.
\* The rates weighted with the wrong probabilities.
TwoStatePrice_SwappedRates(cf_a, r_a, cf_b, r_b, prob_a) ==
    LET prob_b      == RSub(One, prob_a)
        expected_cf == RAdd(RMul(prob_a, cf_a), RMul(prob_b, cf_b))
        expected_r  == RAdd(RMul(prob_a, r_b), RMul(prob_b, r_a))
        den         == RAdd(One, expected_r)
    IN  [prob_b |-> prob_b, expected_cf |-> expected_cf,
         expected_r |-> expected_r,
         price |-> IF RIsZero(den) THEN Unbound ELSE RQuot(expected_cf, den),
         exc |-> IF RIsZero(den) THEN "ZeroDivisionError" ELSE ""]

\* The probability clamped into [0, 1] before use.
TwoStatePrice_Clamped(cf_a, r_a, cf_b, r_b, prob_a0) ==
    LET prob_a      == IF RLt(prob_a0, Int2R(0)) THEN Int2R(0)
                       ELSE IF RLt(One, prob_a0) THEN One ELSE prob_a0
        prob_b      == RSub(One, prob_a)
        expected_cf == RAdd(RMul(prob_a, cf_a), RMul(prob_b, cf_b))
        expected_r  == RAdd(RMul(prob_a, r_a), RMul(prob_b, r_b))
        den         == RAdd(One, expected_r)
    IN  [prob_b |-> prob_b, expected_cf |-> expected_cf,
         expected_r |-> expected_r,
         price |-> IF RIsZero(den) THEN Unbound ELSE RQuot(expected_cf, den),
         exc |-> IF RIsZero(den) THEN "ZeroDivisionError" ELSE ""]

\* Discounted at state A's rate instead of the expected rate.
TwoStatePrice_RateA(cf_a, r_a, cf_b, r_b, prob_a) ==
    LET prob_b      == RSub(One, prob_a)
        expected_cf == RAdd(RMul(prob_a, cf_a), RMul(prob_b, cf_b))
        expected_r  == RAdd(RMul(prob_a, r_a), RMul(prob_b, r_b))
        den         == RAdd(One, r_a)
    IN  [prob_b |-> prob_b, expected_cf |-> expected_cf,
         expected_r |-> expected_r,
         price |-> IF RIsZero(den) THEN Unbound ELSE RQuot(expected_cf, den),
         exc |-> IF RIsZero(den) THEN "ZeroDivisionError" ELSE ""]

\* The weighted rates multiplied instead of added.
TwoStatePrice_RatesMultiplied(cf_a, r_a, cf_b, r_b, prob_a) ==
    LET prob_b      == RSub(One, prob_a)
        expected_cf == RAdd(RMul(prob_a, cf_a), RMul(prob_b, cf_b))
        expected_r  == RMul(RMul(prob_a, r_a), RMul(prob_b, r_b))
        den         == RAdd(One, expected_r)
    IN  [prob_b |-> prob_b, expected_cf |-> expected_cf,
         expected_r |-> expected_r,
         price |-> IF RIsZero(den) THEN Unbound ELSE RQuot(expected_cf, den),
         exc |-> IF RIsZero(den) THEN "ZeroDivisionError" ELSE ""]

\* prob_b taken as 1 + prob_a.
TwoStatePrice_ProbBPlus(cf_a, r_a, cf_b, r_b, prob_a) ==
    LET prob_b      == RAdd(One, prob_a)
        expected_cf == RAdd(RMul(prob_a, cf_a), RMul(prob_b, cf_b))
        expected_r  == RAdd(RMul(prob_a, r_a), RMul(prob_b, r_b))
        den         == RAdd(One, expected_r)
    IN  [prob_b |-> prob_b, expected_cf |-> expected_cf,
         expected_r |-> expected_r,
         price |-> IF RIsZero(den) THEN Unbound ELSE RQuot(expected_cf, den),
         exc |-> IF RIsZero(den) THEN "ZeroDivisionError" ELSE ""]

\* Introduction.py, lines 123-128.
TwoStatePrice(cf_a, r_a, cf_b, r_b, prob_a) ==
    LET prob_b      == RSub(One, prob_a)
        expected_cf == RAdd(RMul(prob_a, cf_a), RMul(prob_b, cf_b))
        expected_r  == RAdd(RMul(prob_a, r_a), RMul(prob_b, r_b))
        den         == RAdd(One, expected_r)
    IN  [prob_b |-> prob_b, expected_cf |-> expected_cf,
         expected_r |-> expected_r,
         price |-> IF RIsZero(den) THEN Unbound ELSE RQuot(expected_cf, den),
         exc |-> IF RIsZero(den) THEN "ZeroDivisionError" ELSE ""]

\* pages/01_Assigning_Probabilities_to_Climate_Scenarios.py, lines 49-54.
TwoStatePrice01(cf_a, r_a, cf_b, r_b, prob_a) ==
    LET prob_b      == RSub(One, prob_a)
        expected_cf == RAdd(RMul(prob_a, cf_a), RMul(prob_b, cf_b))
        expected_r  == RAdd(RMul(prob_a, r_a), RMul(prob_b, r_b))
        den         == RAdd(One, expected_r)
    IN  [prob_b |-> prob_b, expected_cf |-> expected_cf,
         expected_r |-> expected_r,
         price |-> IF RIsZero(den) THEN Unbound ELSE RQuot(expected_cf, den),
         exc |-> IF RIsZero(den) THEN "ZeroDivisionError" ELSE ""]

\* Variant of SdfPrice: the two discount factors exchanged.
SdfPrice_SwappedM(m_u, m_d, scenario) ==
    LET cf_u == IF scenario = "Higher in good times" THEN Int2R(2) ELSE Int2R(1)
        cf_d == IF scenario = "Higher in good times" THEN Int2R(1) ELSE Int2R(2)
    IN  [cf_u |-> cf_u, cf_d |-> cf_d,
         price |-> RAdd(RMul(RMul(Half, m_d), cf_u),
                        RMul(RMul(Half, m_u), cf_d)),
         exc |-> ""]

\* Introduction.py, lines 379-386: the cash flows the toggle sets, and the
\* price with both weights the literal 0.5.
SdfPrice(m_u, m_d, scenario) ==
    LET cf_u == IF scenario = "Higher in good times" THEN Int2R(2) ELSE Int2R(1)
        cf_d == IF scenario = "Higher in good times" THEN Int2R(1) ELSE Int2R(2)
    IN  [cf_u |-> cf_u, cf_d |-> cf_d,
         price |-> RAdd(RMul(RMul(Half, m_u), cf_u),
                        RMul(RMul(Half, m_d), cf_d)),
         exc |-> ""]

\* Variant of RiskPremium: the price taken on the magnitudes of the factors.
RiskPremium_AbsM(m_u, m_d, scenario) ==
    LET good == scenario = "Pays more in good times"
        e_m  == RMul(Half, RAdd(m_u, m_d))
        x_u  == IF good THEN Int2R(2) ELSE Int2R(1)
        x_d  == IF good THEN Int2R(1) ELSE Int2R(2)
        expected_x == RMul(Half, RAdd(x_u, x_d))
        price == RAdd(RMul(RMul(Half, [n |-> Abs(m_u.n), d |-> m_u.d]), x_u),
                      RMul(RMul(Half, [n |-> Abs(m_d.n), d |-> m_d.d]), x_d))
        line == IF RIsZero(e_m) THEN 323 ELSE IF RIsZero(price) THEN 341 ELSE 0
        rf_inverse == RQuot(One, e_m)
        expected_return == RQuot(expected_x, price)
        If(c, v) == IF c THEN v ELSE Unbound
    IN  [rf_inverse |-> If(line # 323, rf_inverse),
         x_u |-> If(line # 323, x_u), x_d |-> If(line # 323, x_d),
         expected_x |-> If(line # 323, expected_x),
         expected_m |-> If(line # 323, e_m),
         price |-> If(line # 323, price),
         expected_return |-> If(line = 0, expected_return),
         risk_premium |-> If(line = 0, RSub(expected_return, rf_inverse)),
         exc |-> IF line = 0 THEN "" ELSE "ZeroDivisionError",
         line |-> line]

\* Variant of RiskPremium: a zero price gives a zero return instead of raising.
RiskPremium_NoRaise(m_u, m_d, scenario) ==
    LET good == scenario = "Pays more in good times"
        e_m  == RMul(Half, RAdd(m_u, m_d))
        x_u  == IF good THEN Int2R(2) ELSE Int2R(1)
        x_d  == IF good THEN Int2R(1) ELSE Int2R(2)
        expected_x == RMul(Half, RAdd(x_u, x_d))
        price == RAdd(RMul(RMul(Half, m_u), x_u), RMul(RMul(Half, m_d), x_d))
        line == IF RIsZero(e_m) THEN 323 ELSE 0
        rf_inverse == RQuot(One, e_m)
        expected_return == IF RIsZero(price) THEN Int2R(0)
                           ELSE RQuot(expected_x, price)
        If(c, v) == IF c THEN v ELSE Unbound
    IN  [rf_inverse |-> If(line # 323, rf_inverse),
         x_u |-> If(line # 323, x_u), x_d |-> If(line # 323, x_d),
         expected_x |-> If(line # 323, expected_x),
         expected_m |-> If(line # 323, e_m),
         price |-> If(line # 323, price),
         expected_return |-> If(line = 0, expected_return),
         risk_premium |-> If(line = 0, RSub(expected_return, rf_inverse)),
         exc |-> IF line = 0 THEN "" ELSE "ZeroDivisionError",
         line |-> line]

\* Variant of RiskPremium: the premium subtracted the wrong way round.
RiskPremium_SignFlipped(m_u, m_d, scenario) ==
    LET good == scenario = "Pays more in good times"
        e_m  == RMul(Half, RAdd(m_u, m_d))
        x_u  == IF good THEN Int2R(2) ELSE Int2R(1)
        x_d  == IF good THEN Int2R(1) ELSE Int2R(2)
        expected_x == RMul(Half, RAdd(x_u, x_d))
        price == RAdd(RMul(RMul(Half, m_u), x_u), RMul(RMul(Half, m_d), x_d))
        line == IF RIsZero(e_m) THEN 323 ELSE IF RIsZero(price) THEN 341 ELSE 0
        rf_inverse == RQuot(One, e_m)
        expected_return == RQuot(expected_x, price)
        If(c, v) == IF c THEN v ELSE Unbound
    IN  [rf_inverse |-> If(line # 323, rf_inverse),
         x_u |-> If(line # 323, x_u), x_d |-> If(line # 323, x_d),
         expected_x |-> If(line # 323, expected_x),
         expected_m |-> If(line # 323, e_m),
         price |-> If(line # 323, price),
         expected_return |-> If(line = 0, expected_return),
         risk_premium |-> If(line = 0, RSub(rf_inverse, expected_return)),
         exc |-> IF line = 0 THEN "" ELSE "ZeroDivisionError",
         line |-> line]

\* pages/02_State-Dependent_Discount_Factor.py, lines 322-342.  line is the
\* line whose division raised (0 when none did).
RiskPremium(m_u, m_d, scenario) ==
    LET good == scenario = "Pays more in good times"
        e_m  == RMul(Half, RAdd(m_u, m_d))
        x_u  == IF good THEN Int2R(2) ELSE Int2R(1)
        x_d  == IF good THEN Int2R(1) ELSE Int2R(2)
        expected_x == RMul(Half, RAdd(x_u, x_d))
        price == RAdd(RMul(RMul(Half, m_u), x_u), RMul(RMul(Half, m_d), x_d))
        line == IF RIsZero(e_m) THEN 323 ELSE IF RIsZero(price) THEN 341 ELSE 0
        rf_inverse == RQuot(One, e_m)
        expected_return == RQuot(expected_x, price)
        If(c, v) == IF c THEN v ELSE Unbound
    IN  [rf_inverse |-> If(line # 323, rf_inverse),
         x_u |-> If(line # 323, x_u), x_d |-> If(line # 323, x_d),
         expected_x |-> If(line # 323, expected_x),
         expected_m |-> If(line # 323, e_m),
         price |-> If(line # 323, price),
         expected_return |-> If(line = 0, expected_return),
         risk_premium |-> If(line = 0, RSub(expected_return, rf_inverse)),
         exc |-> IF line = 0 THEN "" ELSE "ZeroDivisionError",
         line |-> line]

\* Variants of Tradeoff.  The transition cost linear in the fraction.
Tradeoff_Linear(abatement) ==
    LET abatement_fraction == RQuot(abatement, Int2R(100))
    IN  [abatement_fraction |-> abatement_fraction,
         transition_cost |-> RMul(Int2R(2), abatement_fraction),
         physical_damage |-> RSq(RSub(One, abatement_fraction)),
         exc |-> ""]

\* The damage taken on the percentage instead of the fraction.
Tradeoff_NoFraction(abatement) ==
    LET abatement_fraction == RQuot(abatement, Int2R(100))
    IN  [abatement_fraction |-> abatement_fraction,
         transition_cost |-> RMul(Int2R(2), RSq(abatement_fraction)),
         physical_damage |-> RSq(RSub(One, abatement)),
         exc |-> ""]

\* The percentage clamped into [0, 100] before use.
Tradeoff_Clamped(abatement0) ==
    LET abatement == IF RLt(abatement0, Int2R(0)) THEN Int2R(0)
                     ELSE IF RLt(Int2R(100), abatement0) THEN Int2R(100)
                     ELSE abatement0
        abatement_fraction == RQuot(abatement, Int2R(100))
    IN  [abatement_fraction |-> abatement_fraction,
         transition_cost |-> RMul(Int2R(2), RSq(abatement_fraction)),
         physical_damage |-> RSq(RSub(One, abatement_fraction)),
         exc |-> ""]

\* Introduction.py, lines 500-506.
Tradeoff(abatement) ==
    LET abatement_fraction == RQuot(abatement, Int2R(100))
    IN  [abatement_fraction |-> abatement_fraction,
         transition_cost |-> RMul(Int2R(2), RSq(abatement_fraction)),
         physical_damage |-> RSq(RSub(One, abatement_fraction)),
         exc |-> ""]

\* Variant of MApprox: the growth term added instead of subtracted.
MApprox_PlusGrowth(delta, gamma, delta_c) ==
    RAdd(RSub(One, delta), RMul(gamma, delta_c))

\* pages/02_State-Dependent_Discount_Factor.py, line 196.
MApprox(delta, gamma, delta_c) == RSub(RSub(One, delta), RMul(gamma, delta_c))

----------------------------------------------------------------------------
(* The blocks of the scripts.  Each takes the namespace n and the widget   *)
(* values wv and returns the namespace after the block, the exception it   *)
(* raised and what it displayed (label, formatted number).                 *)

\* Introduction.py, lines 114-141.
IntroTwoStateBlock(n, wv) ==
    LET cf_a == Int2R(100)
        r_a  == Hundredths(5)
        cf_b == Int2R(50)
        r_b  == Hundredths(10)
        prob_a == Hundredths(wv.prob_a)
        r == TwoStatePrice(cf_a, r_a, cf_b, r_b, prob_a)
    IN  [ns |-> [n EXCEPT !.cf_a = cf_a, !.r_a = r_a, !.cf_b = cf_b,
                          !.r_b = r_b, !.prob_a = prob_a,
                          !.prob_b = r.prob_b,
                          !.expected_cf = r.expected_cf,
                          !.expected_r = r.expected_r,
                          !.price = r.price],
         exc |-> r.exc,
         shown |-> IF r.exc # "" THEN <<>>
                   ELSE << <<"pi_A", Fmt2(prob_a)>>, <<"pi_B", Fmt2(r.prob_b)>>,
                           <<"P_t", Fmt2(r.price)>> >>]

\* pages/01_Assigning_Probabilities_to_Climate_Scenarios.py, lines 40-67.
Page01TwoStateBlock(n, wv) ==
    LET cf_a == Int2R(100)
        r_a  == Hundredths(5)
        cf_b == Int2R(50)
        r_b  == Hundredths(10)
        prob_a == Hundredths(wv.prob_a)
        r == TwoStatePrice01(cf_a, r_a, cf_b, r_b, prob_a)
    IN  [ns |-> [n EXCEPT !.cf_a = cf_a, !.r_a = r_a, !.cf_b = cf_b,
                          !.r_b = r_b, !.prob_a = prob_a,
                          !.prob_b = r.prob_b,
                          !.expected_cf = r.expected_cf,
                          !.expected_r = r.expected_r,
                          !.price = r.price],
         exc |-> r.exc,
         shown |-> IF r.exc # "" THEN <<>>
                   ELSE << <<"pi_A", Fmt2(prob_a)>>, <<"pi_B", Fmt2(r.prob_b)>>,
                           <<"P_t", Fmt2(r.price)>> >>]

\* Introduction.py, lines 176-210 (pages/01: lines 102-136): the three chart
\* loops "for scenario, ... in <dict>.items()" leave scenario bound to the
\* last key of the dictionaries.
ChartsBlock(n, wv) ==
    [ns |-> [n EXCEPT !.scenario = "Hot House World"],
     exc |-> "", shown |-> <<>>]

\* Variant of IntroSdfBlock: the branch reads the name scenario as the chart
\* loops left it, the radio's value not being assigned to it.
IntroSdfBlock_LoopScenario(n, wv) ==
    LET scenario == n.scenario
        m_u == Rat(1, 2)
        m_d == Int2R(1)
        r == SdfPrice(m_u, m_d, scenario)
    IN  [ns |-> [n EXCEPT !.scenario = scenario, !.m_u = m_u, !.m_d = m_d,
                          !.cf_u = r.cf_u, !.cf_d = r.cf_d,
                          !.price = r.price],
         exc |-> r.exc,
         shown |-> << <<"CF_u", Fmt2(r.cf_u)>>, <<"CF_d", Fmt2(r.cf_d)>>,
                      <<"P_t", Fmt2(r.price)>> >>]

\* Introduction.py, lines 369-395.
IntroSdfBlock(n, wv) ==
    LET scenario == IntroOptions[wv.radio]
        m_u == Rat(1, 2)
        m_d == Int2R(1)
        r == SdfPrice(m_u, m_d, scenario)
    IN  [ns |-> [n EXCEPT !.scenario = scenario, !.m_u = m_u, !.m_d = m_d,
                          !.cf_u = r.cf_u, !.cf_d = r.cf_d,
                          !.price = r.price],
         exc |-> r.exc,
         shown |-> << <<"CF_u", Fmt2(r.cf_u)>>, <<"CF_d", Fmt2(r.cf_d)>>,
                      <<"P_t", Fmt2(r.price)>> >>]

\* Variant of IntroTradeoffBlock: the share abated is read from the name
\* prob_a the two-state block left behind, whenever it is bound.
IntroTradeoffBlock_ReadsProbA(n, wv) ==
    LET abatement == IF IsBound(n.prob_a) THEN RMul(n.prob_a, Int2R(100))
                     ELSE Int2R(wv.abatement)
        r == Tradeoff(abatement)
    IN  [ns |-> [n EXCEPT !.abatement = abatement,
                          !.abatement_fraction = r.abatement_fraction,
                          !.transition_cost = r.transition_cost,
                          !.physical_damage = r.physical_damage],
         exc |-> r.exc,
         shown |-> << <<"Transition Cost (% GDP)", FmtPct2(r.transition_cost)>>,
                      <<"Physical Damages (% GDP)", FmtPct2(r.physical_damage)>> >>]

\* Introduction.py, lines 495-511.
IntroTradeoffBlock(n, wv) ==
    LET abatement == Int2R(wv.abatement)
        r == Tradeoff(abatement)
    IN  [ns |-> [n EXCEPT !.abatement = abatement,
                          !.abatement_fraction = r.abatement_fraction,
                          !.transition_cost = r.transition_cost,
                          !.physical_damage = r.physical_damage],
         exc |-> r.exc,
         shown |-> << <<"Transition Cost (% GDP)", FmtPct2(r.transition_cost)>>,
                      <<"Physical Damages (% GDP)", FmtPct2(r.physical_damage)>> >>]

\* pages/02_State-Dependent_Discount_Factor.py, lines 77-100: the loops
\* "for gamma in gamma_values" leave gamma bound to the last value, 20.
Page02CrraBlock(n, wv) ==
    [ns |-> [n EXCEPT !.gamma = Int2R(20)], exc |-> "", shown |-> <<>>]

\* Variant of Page02MApproxBlock: gamma not assigned again, so that the
\* value the loops left is used.
Page02MApproxBlock_LoopGamma(n, wv) ==
    LET delta   == Hundredths(3)
        gamma   == n.gamma
        delta_c == Hundredths(wv.delta_c)
        m_approx == MApprox(delta, gamma, delta_c)
    IN  [ns |-> [n EXCEPT !.delta = delta, !.gamma = gamma,
                          !.delta_c = delta_c, !.m_approx = m_approx],
         exc |-> "",
         shown |-> << <<"m_{t+1}", Fmt3(m_approx)>> >>]

\* pages/02_State-Dependent_Discount_Factor.py, lines 188-199.
Page02MApproxBlock(n, wv) ==
    LET delta   == Hundredths(3)
        gamma   == Int2R(2)
        delta_c == Hundredths(wv.delta_c)
        m_approx == MApprox(delta, gamma, delta_c)
    IN  [ns |-> [n EXCEPT !.delta = delta, !.gamma = gamma,
                          !.delta_c = delta_c, !.m_approx = m_approx],
         exc |-> "",
         shown |-> << <<"m_{t+1}", Fmt3(m_approx)>> >>]

\* pages/02_State-Dependent_Discount_Factor.py, lines 219-221.
Page02RfBlock(n, wv) ==
    [ns |-> [n EXCEPT !.delta = Hundredths(2), !.gamma = Int2R(2)],
     exc |-> "", shown |-> <<>>]

\* Variants of Page02RiskPremiumBlock.  The two messages exchanged.
Page02RiskPremiumBlock_MessageSwapped(n, wv) ==
    LET scenario == Page02Options[wv.radio]
        m_u == Rat(1, 2)
        m_d == Int2R(1)
        r == RiskPremium(m_u, m_d, scenario)
    IN  [ns |-> [n EXCEPT !.scenario = scenario, !.m_u = m_u, !.m_d = m_d,
                          !.rf_inverse = r.rf_inverse,
                          !.x_u = r.x_u, !.x_d = r.x_d,
                          !.expected_x = r.expected_x,
                          !.expected_m = r.expected_m,
                          !.price = r.price,
                          !.expected_return = r.expected_return,
                          !.risk_premium = r.risk_premium],
         exc |-> r.exc,
         shown |-> IF r.exc # "" THEN <<>>
                   ELSE << <<"E[CF]", Fmt2(r.expected_x)>>,
                           <<"p_t", Fmt2(r.price)>>,
                           <<"Expected return", Fmt2(r.expected_return)>>,
                           <<"Risk-free rate", Fmt2(r.rf_inverse)>>,
                           <<"Risk premium", Fmt2(r.risk_premium)>>,
                           <<IF scenario = "Pays more in good times"
                               THEN "st.success" ELSE "st.error", 0>> >>]

\* The values of the two discount factors exchanged.
Page02RiskPremiumBlock_FactorsSwapped(n, wv) ==
    LET scenario == Page02Options[wv.radio]
        m_u == Int2R(1)
        m_d == Rat(1, 2)
        r == RiskPremium(m_u, m_d, scenario)
    IN  [ns |-> [n EXCEPT !.scenario = scenario, !.m_u = m_u, !.m_d = m_d,
                          !.rf_inverse = r.rf_inverse,
                          !.x_u = r.x_u, !.x_d = r.x_d,
                          !.expected_x = r.expected_x,
                          !.expected_m = r.expected_m,
                          !.price = r.price,
                          !.expected_return = r.expected_return,
                          !.risk_premium = r.risk_premium],
         exc |-> r.exc,
         shown |-> IF r.exc # "" THEN <<>>
                   ELSE << <<"E[CF]", Fmt2(r.expected_x)>>,
                           <<"p_t", Fmt2(r.price)>>,
                           <<"Expected return", Fmt2(r.expected_return)>>,
                           <<"Risk-free rate", Fmt2(r.rf_inverse)>>,
                           <<"Risk premium", Fmt2(r.risk_premium)>>,
                           <<IF scenario = "Pays more in bad times"
                               THEN "st.success" ELSE "st.error", 0>> >>]

\* pages/02_State-Dependent_Discount_Factor.py, lines 313-359.
Page02RiskPremiumBlock(n, wv) ==
    LET scenario == Page02Options[wv.radio]
        m_u == Rat(1, 2)
        m_d == Int2R(1)
        r == RiskPremium(m_u, m_d, scenario)
    IN  [ns |-> [n EXCEPT !.scenario = scenario, !.m_u = m_u, !.m_d = m_d,
                          !.rf_inverse = r.rf_inverse,
                          !.x_u = r.x_u, !.x_d = r.x_d,
                          !.expected_x = r.expected_x,
                          !.expected_m = r.expected_m,
                          !.price = r.price,
                          !.expected_return = r.expected_return,
                          !.risk_premium = r.risk_premium],
         exc |-> r.exc,
         shown |-> IF r.exc # "" THEN <<>>
                   ELSE << <<"E[CF]", Fmt2(r.expected_x)>>,
                           <<"p_t", Fmt2(r.price)>>,
                           <<"Expected return", Fmt2(r.expected_return)>>,
                           <<"Risk-free rate", Fmt2(r.rf_inverse)>>,
                           <<"Risk premium", Fmt2(r.risk_premium)>>,
                           <<IF scenario = "Pays more in bad times"
                               THEN "st.success" ELSE "st.error", 0>> >>]

----------------------------------------------------------------------------
(* The session: Streamlit runs the script of the page block after block,   *)
(* and starts it again, in a fresh namespace, when a widget changes.       *)

FirstBlock(p) == IF p = "page02" THEN "crra" ELSE "two_state"

\* The users whose sessions run side by side.
Users == {1, 2}

\* A session about to run the script of page p with the widget values wv:
\* every run starts in a fresh namespace with nothing displayed.
NewSession(p, wv) ==
    [page |-> p, pc |-> FirstBlock(p), w |-> wv,
     ns |-> EmptyNs, exc |-> "", out |-> <<>>]

\* No run has been kept yet.
NoMemo ==
    [set |-> FALSE, user |-> 0, page |-> "", w |-> WidgetDefaults,
     ns |-> EmptyNs, out |-> <<>>, changed |-> FALSE]

Init ==
    /\ page = "Introduction"
    /\ pc = FirstBlock("Introduction")
    /\ w = WidgetDefaults
    /\ ns = EmptyNs
    /\ exc = ""
    /\ out = <<>>
    /\ eng = NoCall
    /\ sess = [u \in Users |-> NewSession("Introduction", WidgetDefaults)]
    /\ memo = NoMemo

\* A block ran: r is what it returned, nxt the block after it.
Advance(r, nxt) ==
    /\ ns' = r.ns
    /\ exc' = r.exc
    /\ out' = out \o r.shown
    /\ pc' = IF r.exc = "" THEN nxt ELSE "raised"
    /\ UNCHANGED <<page, w, eng, sess, memo>>

IntroTwoState ==
    /\ page = "Introduction" /\ pc = "two_state"
    /\ Advance(IntroTwoStateBlock(ns, w), "charts")

IntroCharts ==
    /\ page = "Introduction" /\ pc = "charts"
    /\ Advance(ChartsBlock(ns, w), "sdf")

IntroSdf ==
    /\ page = "Introduction" /\ pc = "sdf"
    /\ Advance(IntroSdfBlock(ns, w), "tradeoff")

IntroTradeoff ==
    /\ page = "Introduction" /\ pc = "tradeoff"
    /\ Advance(IntroTradeoffBlock(ns, w), "done")

Page01TwoState ==
    /\ page = "page01" /\ pc = "two_state"
    /\ Advance(Page01TwoStateBlock(ns, w), "charts")

Page01Charts ==
    /\ page = "page01" /\ pc = "charts"
    /\ Advance(ChartsBlock(ns, w), "done")

Page02Crra ==
    /\ page = "page02" /\ pc = "crra"
    /\ Advance(Page02CrraBlock(ns, w), "m_approx")

Page02MApprox ==
    /\ page = "page02" /\ pc = "m_approx"
    /\ Advance(Page02MApproxBlock(ns, w), "rf")

Page02Rf ==
    /\ page = "page02" /\ pc = "rf"
    /\ Advance(Page02RfBlock(ns, w), "risk_premium")

Page02RiskPremium ==
    /\ page = "page02" /\ pc = "risk_premium"
    /\ Advance(Page02RiskPremiumBlock(ns, w), "done")

\* The rerun a widget change or a page change triggers.
Rerun(p, wv) ==
    /\ page' = p
    /\ w' = wv
    /\ pc' = FirstBlock(p)
    /\ ns' = EmptyNs
    /\ exc' = ""
    /\ out' = <<>>
    /\ UNCHANGED <<eng, sess, memo>>

SetProbA ==
    /\ page \in {"Introduction", "page01"}
    /\ \E k \in SliderMoves(w.prob_a, ProbAMin, ProbAMax) :
          Rerun(page, [w EXCEPT !.prob_a = k])

SetAbatement ==
    /\ page = "Introduction"
    /\ \E k \in SliderMoves(w.abatement, AbatementMin, AbatementMax) :
          Rerun(page, [w EXCEPT !.abatement = k])

SetDeltaC ==
    /\ page = "page02"
    /\ \E k \in SliderMoves(w.delta_c, DeltaCMin, DeltaCMax) :
          Rerun(page, [w EXCEPT !.delta_c = k])

SetRadio ==
    /\ page \in {"Introduction", "page02"}
    /\ \E i \in {1, 2} \ {w.radio} :
          Rerun(page, [w EXCEPT !.radio = i])

\* Another page: its widgets are created anew, with their defaults.
Navigate ==
    \E p \in Pages \ {page} : Rerun(p, WidgetDefaults)

Next ==
    \/ IntroTwoState \/ IntroCharts \/ IntroSdf \/ IntroTradeoff
    \/ Page01TwoState \/ Page01Charts
    \/ Page02Crra \/ Page02MApprox \/ Page02Rf \/ Page02RiskPremium
    \/ SetProbA \/ SetAbatement \/ SetDeltaC \/ SetRadio \/ Navigate

Spec == Init /\ [][Next]_vars

----------------------------------------------------------------------------
(* The formulas applied to arguments of their own, outside the ranges the  *)
(* widgets and the scripts' constants give them.                           *)

\* How far beyond a slider's range the arguments are drawn.
EngSpan == 50

EngProbs      == (ProbAMin - EngSpan)..(ProbAMax + EngSpan)       \* hundredths
EngAbatements == (AbatementMin - EngSpan)..(AbatementMax + EngSpan)
EngRates      == {-150, -100, -50, 5, 10}                         \* hundredths
EngCfs        == {50, 100}
EngMs         == {-100, -50, 0, 50, 100}                          \* hundredths

CallTwoStatePrice ==
    /\ eng.fn = "none"
    /\ \E f \in {"Introduction", "page01"}, cf_a, cf_b \in EngCfs,
          r_a, r_b \in EngRates, p \in EngProbs :
          eng' = [fn |-> "TwoStatePrice", file |-> f,
                  cf_a |-> cf_a, r_a |-> r_a, cf_b |-> cf_b, r_b |-> r_b,
                  prob_a |-> p,
                  res |-> IF f = "Introduction"
                          THEN TwoStatePrice(Int2R(cf_a), Hundredths(r_a),
                                             Int2R(cf_b), Hundredths(r_b),
                                             Hundredths(p))
                          ELSE TwoStatePrice01(Int2R(cf_a), Hundredths(r_a),
                                               Int2R(cf_b), Hundredths(r_b),
                                               Hundredths(p))]
    /\ UNCHANGED <<page, pc, w, ns, exc, out, sess, memo>>

CallSdfPrice ==
    /\ eng.fn = "none"
    /\ \E m_u, m_d \in EngMs, i \in {1, 2} :
          eng' = [fn |-> "SdfPrice", m_u |-> m_u, m_d |-> m_d,
                  scenario |-> IntroOptions[i],
                  res |-> SdfPrice(Hundredths(m_u), Hundredths(m_d),
                                   IntroOptions[i])]
    /\ UNCHANGED <<page, pc, w, ns, exc, out, sess, memo>>

CallRiskPremium ==
    /\ eng.fn = "none"
    /\ \E m_u, m_d \in EngMs, i \in {1, 2} :
          eng' = [fn |-> "RiskPremium", m_u |-> m_u, m_d |-> m_d,
                  scenario |-> Page02Options[i],
                  res |-> RiskPremium(Hundredths(m_u), Hundredths(m_d),
                                      Page02Options[i])]
    /\ UNCHANGED <<page, pc, w, ns, exc, out, sess, memo>>

CallTradeoff ==
    /\ eng.fn = "none"
    /\ \E a \in EngAbatements :
          eng' = [fn |-> "Tradeoff", abatement |-> a,
                  res |-> Tradeoff(Int2R(a))]
    /\ UNCHANGED <<page, pc, w, ns, exc, out, sess, memo>>

EngReturn ==
    /\ eng.fn # "none"
    /\ eng' = NoCall
    /\ UNCHANGED <<page, pc, w, ns, exc, out, sess, memo>>

EngNext ==
    \/ CallTwoStatePrice \/ CallSdfPrice \/ CallRiskPremium \/ CallTradeoff
    \/ EngReturn

SpecEngine == Init /\ [][EngNext]_vars

----------------------------------------------------------------------------
(* The simulated cash flows of Introduction.py, lines 409-422, and of      *)
(* pages/02, lines 373-386: arrays over the years, which numpy computes    *)
(* element by element, one array expression after the other.               *)

\* years = np.arange(2020, 2051)
YearFirst == 2020
YearLast  == 2050
Years == YearFirst..YearLast

\* The first year of the mask years >= 2030.
LossStart == 2030

\* np.zeros_like(years, dtype=float), and an array not computed yet.
Zeros   == [y \in Years |-> Int2R(0)]
NoArray == [y \in Years |-> Unbound]

\* gdp_loss[years >= 2030] = -0.1 * (years[years >= 2030] - 2030): the
\* element of year y after the assignment, old being the element before.
GdpLossAssigned(y, old) ==
    IF y >= LossStart THEN RMul(Rat(-1, 10), Int2R(y - LossStart)) ELSE old

\* np.clip(x, lo, hi) and np.abs(x), of one element.
NpClip(x, lo, hi) == IF RLt(x, lo) THEN lo ELSE IF RLt(hi, x) THEN hi ELSE x
NpAbs(x) == [n |-> Abs(x.n), d |-> x.d]

\* a.max() and a.min().
NpMax(a) == CHOOSE m \in {a[y] : y \in Years} : \A y \in Years : RLeq(a[y], m)
NpMin(a) == CHOOSE m \in {a[y] : y \in Years} : \A y \in Years : RLeq(m, a[y])

\* (gdp_loss_abs - gdp_loss_abs.min()) / (gdp_loss_abs.max() -
\* gdp_loss_abs.min()), of one element; numpy's division by zero gives nan
\* or inf with a warning and raises nothing.
GdpLossNorm(x, a) ==
    LET den == RSub(NpMax(a), NpMin(a))
    IN  IF RIsZero(den) THEN Unbound ELSE RQuot(RSub(x, NpMin(a)), den)

\* cf_hedging = 1 + 0.5 * gdp_loss_norm
CfHedging(norm) == RAdd(One, RMul(Half, norm))

\* Variant of CfExposed: the sign of the slope that of cf_hedging.
CfExposed_SlopeUp(norm) == RAdd(One, RMul(Half, norm))

\* cf_exposed = 1 - 0.5 * gdp_loss_norm
CfExposed(norm) == RSub(One, RMul(Half, norm))

\* The block at the element of year k of the array expression stage.
GdpAt(e, stage) == e.fn = "gdp" /\ e.stage = stage

\* After the element of year e.k: the next element, or the next expression.
GdpAdvance(e, nxt) ==
    IF e.k = YearLast THEN [e EXCEPT !.stage = nxt, !.k = YearFirst]
    ELSE [e EXCEPT !.k = e.k + 1]

GdpUnchanged == UNCHANGED <<page, pc, w, ns, exc, out, sess, memo>>

GdpBegin ==
    /\ eng.fn = "none"
    /\ \E f \in {"Introduction", "page02"} :
          eng' = [fn |-> "gdp", file |-> f, stage |-> "assign", k |-> YearFirst,
                  gdp_loss |-> Zeros, gdp_loss_abs |-> NoArray,
                  gdp_loss_norm |-> NoArray,
                  cf_hedging |-> NoArray, cf_exposed |-> NoArray]
    /\ GdpUnchanged

GdpAssign ==
    /\ GdpAt(eng, "assign")
    /\ eng' = GdpAdvance([eng EXCEPT !.gdp_loss[eng.k] =
                              GdpLossAssigned(eng.k, eng.gdp_loss[eng.k])],
                         "clip")
    /\ GdpUnchanged

GdpClip ==
    /\ GdpAt(eng, "clip")
    /\ eng' = GdpAdvance([eng EXCEPT !.gdp_loss[eng.k] =
                              NpClip(eng.gdp_loss[eng.k], Int2R(-5), Int2R(0))],
                         "abs")
    /\ GdpUnchanged

GdpAbs ==
    /\ GdpAt(eng, "abs")
    /\ eng' = GdpAdvance([eng EXCEPT !.gdp_loss_abs[eng.k] =
                              NpAbs(eng.gdp_loss[eng.k])],
                         "norm")
    /\ GdpUnchanged

GdpNormalise ==
    /\ GdpAt(eng, "norm")
    /\ eng' = GdpAdvance([eng EXCEPT !.gdp_loss_norm[eng.k] =
                              GdpLossNorm(eng.gdp_loss_abs[eng.k], eng.gdp_loss_abs)],
                         "cf_hedging")
    /\ GdpUnchanged

GdpHedging ==
    /\ GdpAt(eng, "cf_hedging")
    /\ eng' = GdpAdvance([eng EXCEPT !.cf_hedging[eng.k] =
                              CfHedging(eng.gdp_loss_norm[eng.k])],
                         "cf_exposed")
    /\ GdpUnchanged

GdpExposed ==
    /\ GdpAt(eng, "cf_exposed")
    /\ eng' = GdpAdvance([eng EXCEPT !.cf_exposed[eng.k] =
                              CfExposed(eng.gdp_loss_norm[eng.k])],
                         "done")
    /\ GdpUnchanged

GdpEnd ==
    /\ GdpAt(eng, "done")
    /\ eng' = NoCall
    /\ GdpUnchanged

GdpNext ==
    \/ GdpBegin \/ GdpAssign \/ GdpClip \/ GdpAbs \/ GdpNormalise
    \/ GdpHedging \/ GdpExposed \/ GdpEnd

SpecGdp == Init /\ [][GdpNext]_vars

----------------------------------------------------------------------------
(* Several sessions.  Streamlit runs the script once per session and       *)
(* widget change, each run in a namespace of its own; the scripts keep     *)
(* nothing in st.session_state, in a cache or in a module-level object    *)
(* that outlives a run.  A session here is a record with the fields of    *)
(* the single session above, and its sliders are moved one step at a time *)
(* within Reach steps of their defaults.                                  *)

Reach == 1

\* The session whose runs are kept and compared in SpecRuns.
Watched == {1}

NearMoves(v, lo, hi, dflt) ==
    SliderMoves(v, lo, hi) \cap ((dflt - Reach)..(dflt + Reach))

\* What the block at s.pc returns when run in the session s.
BlockOf(s) ==
    CASE s.page = "Introduction" /\ s.pc = "two_state" -> IntroTwoStateBlock(s.ns, s.w)
      [] s.page = "Introduction" /\ s.pc = "charts"    -> ChartsBlock(s.ns, s.w)
      [] s.page = "Introduction" /\ s.pc = "sdf"       -> IntroSdfBlock(s.ns, s.w)
      [] s.page = "Introduction" /\ s.pc = "tradeoff"  -> IntroTradeoffBlock(s.ns, s.w)
      [] s.page = "page01" /\ s.pc = "two_state"       -> Page01TwoStateBlock(s.ns, s.w)
      [] s.page = "page01" /\ s.pc = "charts"          -> ChartsBlock(s.ns, s.w)
      [] s.page = "page02" /\ s.pc = "crra"            -> Page02CrraBlock(s.ns, s.w)
      [] s.page = "page02" /\ s.pc = "m_approx"        -> Page02MApproxBlock(s.ns, s.w)
      [] s.page = "page02" /\ s.pc = "rf"              -> Page02RfBlock(s.ns, s.w)
      [] s.page = "page02" /\ s.pc = "risk_premium"    -> Page02RiskPremiumBlock(s.ns, s.w)

\* The block after the block c in the script of page p.
NextPcOf(p, c) ==
    CASE p = "Introduction" /\ c = "two_state" -> "charts"
      [] p = "Introduction" /\ c = "charts"    -> "sdf"
      [] p = "Introduction" /\ c = "sdf"       -> "tradeoff"
      [] p = "Introduction" /\ c = "tradeoff"  -> "done"
      [] p = "page01" /\ c = "two_state"       -> "charts"
      [] p = "page01" /\ c = "charts"          -> "done"
      [] p = "page02" /\ c = "crra"            -> "m_approx"
      [] p = "page02" /\ c = "m_approx"        -> "rf"
      [] p = "page02" /\ c = "rf"              -> "risk_premium"
      [] p = "page02" /\ c = "risk_premium"    -> "done"

\* The session s after its next block has run.
SessStep(s) ==
    LET r == BlockOf(s)
    IN  [s EXCEPT !.ns = r.ns, !.exc = r.exc, !.out = s.out \o r.shown,
                  !.pc = IF r.exc = "" THEN NextPcOf(s.page, s.pc) ELSE "raised"]

\* Variant of SessRerun: the namespace of the run before is kept.
SessRerun_KeepsNamespace(s, p, wv) ==
    [NewSession(p, wv) EXCEPT !.ns = s.ns]

\* The session s after a widget change or a page change: the script of
\* page p is about to run anew, and nothing of the run before is left.
SessRerun(s, p, wv) == NewSession(p, wv)

\* A block of user u's run.
UserStep(u) ==
    /\ sess[u].pc \notin {"done", "raised"}
    /\ sess' = [sess EXCEPT ![u] = SessStep(sess[u])]
    /\ UNCHANGED <<page, pc, w, ns, exc, out, eng, memo>>

\* User u's session is rerun; a kept run of that session notes that a run
\* with other widget values or of another page came after it.
UserRerun(u, p, wv) ==
    /\ sess' = [sess EXCEPT ![u] = SessRerun(sess[u], p, wv)]
    /\ memo' = IF memo.set /\ memo.user = u /\ <<p, wv>> # <<memo.page, memo.w>>
               THEN [memo EXCEPT !.changed = TRUE]
               ELSE memo
    /\ UNCHANGED <<page, pc, w, ns, exc, out, eng>>

UserSetProbA(u) ==
    /\ sess[u].page \in {"Introduction", "page01"}
    /\ \E k \in NearMoves(sess[u].w.prob_a, ProbAMin, ProbAMax, ProbADefault) :
          UserRerun(u, sess[u].page, [sess[u].w EXCEPT !.prob_a = k])

UserSetAbatement(u) ==
    /\ sess[u].page = "Introduction"
    /\ \E k \in NearMoves(sess[u].w.abatement, AbatementMin, AbatementMax,
                          AbatementDefault) :
          UserRerun(u, sess[u].page, [sess[u].w EXCEPT !.abatement = k])

UserSetDeltaC(u) ==
    /\ sess[u].page = "page02"
    /\ \E k \in NearMoves(sess[u].w.delta_c, DeltaCMin, DeltaCMax, DeltaCDefault) :
          UserRerun(u, sess[u].page, [sess[u].w EXCEPT !.delta_c = k])

UserSetRadio(u) ==
    /\ sess[u].page \in {"Introduction", "page02"}
    /\ \E i \in {1, 2} \ {sess[u].w.radio} :
          UserRerun(u, sess[u].page, [sess[u].w EXCEPT !.radio = i])

UserNavigate(u) ==
    \E p \in Pages \ {sess[u].page} : UserRerun(u, p, WidgetDefaults)

\* A finished run of a watched session is kept, once.
Observe ==
    /\ ~memo.set
    /\ \E u \in Watched :
          /\ sess[u].pc = "done"
          /\ memo' = [set |-> TRUE, user |-> u, page |-> sess[u].page,
                      w |-> sess[u].w, ns |-> sess[u].ns, out |-> sess[u].out,
                      changed |-> FALSE]
    /\ UNCHANGED <<page, pc, w, ns, exc, out, eng, sess>>

WatchedStep == \E u \in Watched : UserStep(u)
WatchedSetProbA == \E u \in Watched : UserSetProbA(u)
WatchedSetAbatement == \E u \in Watched : UserSetAbatement(u)
WatchedSetDeltaC == \E u \in Watched : UserSetDeltaC(u)
WatchedSetRadio == \E u \in Watched : UserSetRadio(u)
WatchedNavigate == \E u \in Watched : UserNavigate(u)

RunsNext ==
    \/ WatchedStep \/ WatchedSetProbA \/ WatchedSetAbatement
    \/ WatchedSetDeltaC \/ WatchedSetRadio \/ WatchedNavigate
    \/ Observe

\* The runs of one session, one of them kept.
SpecRuns == Init /\ [][RunsNext]_vars

AnyStep == \E u \in Users : UserStep(u)
AnySetProbA == \E u \in Users : UserSetProbA(u)
AnySetAbatement == \E u \in Users : UserSetAbatement(u)
AnySetDeltaC == \E u \in Users : UserSetDeltaC(u)
AnySetRadio == \E u \in Users : UserSetRadio(u)
AnyNavigate == \E u \in Users : UserNavigate(u)

UsersNext ==
    \/ AnyStep \/ AnySetProbA \/ AnySetAbatement
    \/ AnySetDeltaC \/ AnySetRadio \/ AnyNavigate

\* The sessions of all users, their blocks interleaved in any order.
SpecUsers == Init /\ [][UsersNext]_vars

----------------------------------------------------------------------------
(* Properties.                                                             *)

\* The numbers the run has displayed under a label.
Shown(label) == {out[i][2] : i \in {j \in DOMAIN out : out[j][1] = label}}

\* The two-state block has run and price is still the two-state price.
TwoStateRan ==
    \/ page = "Introduction" /\ pc \in {"charts", "sdf"}
    \/ page = "page01" /\ pc \in {"charts", "done"}

\* The toggle block has run: price is the stochastic-discount-factor price.
SdfRan ==
    \/ page = "Introduction" /\ pc \in {"tradeoff", "done"}
    \/ page = "page02" /\ pc = "done"

TradeoffRan == page = "Introduction" /\ pc = "done"

DiagnosticsRan == page = "page02" /\ pc = "done"

\* The cash flows of the toggle block (cf_u, cf_d in Introduction.py and
\* x_u, x_d in pages/02).
CfU == IF page = "Introduction" THEN ns.cf_u ELSE ns.x_u
CfD == IF page = "Introduction" THEN ns.cf_d ELSE ns.x_d

\* C1: for every slider position prob_a = k/100 the two-state price is
\* expected_cf / (1 + expected_r) with expected_cf = prob_a*100 +
\* (1-prob_a)*50 and expected_r = prob_a*0.05 + (1-prob_a)*0.10; at
\* prob_a = 0.5 these are 75 and 0.075 and the price is displayed as 69.77.
C1_TwoStatePriceFormula ==
    TwoStateRan =>
        LET k     == w.prob_a
            cfNum == k * 100 + (100 - k) * 50          \* 100 * expected_cf
            rNum  == k * 5 + (100 - k) * 10            \* 10000 * expected_r
        IN  /\ exc = ""
            /\ ns.prob_a = Rat(k, 100)
            /\ ns.expected_cf = Rat(cfNum, 100)
            /\ ns.expected_r = Rat(rNum, 10000)
            /\ ns.price = Rat(cfNum * 100, 10000 + rNum)
            /\ Shown("P_t") = {Fmt2(ns.price)}
            /\ k = 50 => /\ ns.expected_cf = Int2R(75)
                         /\ ns.expected_r = Rat(75, 1000)
                         /\ Shown("P_t") = {6977}

C1_Witness ==
    /\ TwoStateRan /\ w.prob_a = 50
    /\ IsBound(ns.price) /\ Shown("P_t") = {6977}

\* The formula of the specification for the stochastic-discount-factor price.
SdfFormula(prob_u, m_u, cf_u, m_d, cf_d) ==
    RAdd(RMul(RMul(prob_u, m_u), cf_u),
         RMul(RMul(RSub(One, prob_u), m_d), cf_d))

\* C2 as stated: the price is prob_u*m_u*cf_u + (1-prob_u)*m_d*cf_d for
\* every prob_u in [0, 1].
C2_Original ==
    SdfRan =>
        \A pu \in ProbAMin..ProbAMax :
            ns.price = SdfFormula(Hundredths(pu), ns.m_u, CfU, ns.m_d, CfD)

\* C2, amended: the price is the formula at prob_u = 0.5, the one probability
\* the code has (both weights are the literal 0.5): with m_u = 0.5 and
\* m_d = 1.0 it is 1.0 for the cash flows (2.0, 1.0) and 1.25 for (1.0, 2.0).
C2_SdfPriceAtHalf ==
    SdfRan =>
        /\ exc = ""
        /\ ns.m_u = Rat(1, 2) /\ ns.m_d = Int2R(1)
        /\ ns.price = SdfFormula(Half, ns.m_u, CfU, ns.m_d, CfD)
        /\ w.radio = 1 => /\ CfU = Int2R(2) /\ CfD = Int2R(1)
                          /\ ns.price = Int2R(1)
        /\ w.radio = 2 => /\ CfU = Int2R(1) /\ CfD = Int2R(2)
                          /\ ns.price = Rat(125, 100)

C2_Witness ==
    /\ page = "Introduction" /\ pc = "tradeoff" /\ w.radio = 2
    /\ ns.price = Rat(5, 4) /\ 125 \in Shown("P_t")

\* C3: for every abatement k in 0..100, with a = k/100, the transition cost
\* is 2*a^2 and the physical damage (1-a)^2: (0, 1) at 0, (0.5, 0.25) at 50
\* and (2, 0) at 100.
C3_TradeoffFormula ==
    TradeoffRan =>
        LET k == w.abatement
        IN  /\ exc = ""
            /\ ns.abatement_fraction = Rat(k, 100)
            /\ ns.transition_cost = Rat(2 * k * k, 10000)
            /\ ns.physical_damage = Rat((100 - k) * (100 - k), 10000)
            /\ k = 0 => ns.transition_cost = Int2R(0)
                        /\ ns.physical_damage = Int2R(1)
            /\ k = 50 => ns.transition_cost = Rat(1, 2)
                         /\ ns.physical_damage = Rat(1, 4)
            /\ k = 100 => ns.transition_cost = Int2R(2)
                          /\ ns.physical_damage = Int2R(0)

C3_Witness ==
    /\ TradeoffRan /\ w.abatement = 50
    /\ ns.transition_cost = Rat(1, 2) /\ ns.physical_damage = Rat(1, 4)

\* C4: over abatement 0..100 both outputs are non-negative, the transition
\* cost is non-decreasing and the physical damage non-increasing: the run's
\* outputs at the slider's position compared with those at every other one.
C4_TradeoffMonotone ==
    TradeoffRan =>
        /\ RLeq(Int2R(0), ns.transition_cost)
        /\ RLeq(Int2R(0), ns.physical_damage)
        /\ \A y \in AbatementMin..AbatementMax :
              LET t == Tradeoff(Int2R(y))
              IN  /\ w.abatement <= y =>
                        /\ RLeq(ns.transition_cost, t.transition_cost)
                        /\ RLeq(t.physical_damage, ns.physical_damage)
                  /\ y <= w.abatement =>
                        /\ RLeq(t.transition_cost, ns.transition_cost)
                        /\ RLeq(ns.physical_damage, t.physical_damage)

C4_Witness ==
    /\ TradeoffRan /\ w.abatement = 30
    /\ RLt(ns.transition_cost, Tradeoff(Int2R(60)).transition_cost)
    /\ RLt(Tradeoff(Int2R(60)).physical_damage, ns.physical_damage)

\* A call of the two-state formula: 100 * expected_cf and
\* 10000 * (1 + expected_r) of its arguments, in integers.
EngCfNum  == eng.prob_a * eng.cf_a + (100 - eng.prob_a) * eng.cf_b
EngDenNum == 10000 + eng.prob_a * eng.r_a + (100 - eng.prob_a) * eng.r_b

EngGood == eng.scenario \in {"Higher in good times", "Pays more in good times"}
EngXU   == IF EngGood THEN 2 ELSE 1
EngXD   == IF EngGood THEN 1 ELSE 2

C10_Diagnostics ==
    DiagnosticsRan =>
        LET prob_u == Rat(1, 2)
            e_m == RAdd(RMul(prob_u, ns.m_u), RMul(RSub(One, prob_u), ns.m_d))
        IN  /\ exc = ""
            /\ ns.expected_x =
                   RAdd(RMul(prob_u, ns.x_u), RMul(RSub(One, prob_u), ns.x_d))
            /\ RMul(ns.rf_inverse, e_m) = One
            /\ RMul(ns.expected_return, ns.price) = ns.expected_x
            /\ RAdd(ns.risk_premium, ns.rf_inverse) = ns.expected_return
            /\ ns.expected_x = Rat(3, 2) /\ ns.rf_inverse = Rat(4, 3)
            /\ w.radio = 1 => /\ ns.expected_return = Rat(3, 2)
                              /\ ns.risk_premium = Rat(1, 6)
            /\ w.radio = 2 => /\ ns.expected_return = Rat(6, 5)
                              /\ ns.risk_premium = Rat(-2, 15)
            /\ Shown("Risk premium") = {Fmt2(ns.risk_premium)}

C10_Witness ==
    /\ DiagnosticsRan /\ w.radio = 2
    /\ ns.risk_premium = Rat(-2, 15) /\ Shown("Risk premium") = {-13}

\* C11 as stated: at cf_a = 100, r_a = 0.05, cf_b = 50, r_b = 0.10 and
\* prob_a = 0.5 the two-state price is 100.0.
C11_Original ==
    (TwoStateRan /\ w.prob_a = 50) => ns.price = Int2R(100)

\* C11, amended: at these values the two-state price is 75 / 1.075 =
\* 3000/43, displayed as 69.77.
C11_PriceAtHalf ==
    (TwoStateRan /\ w.prob_a = 50) =>
        /\ ns.cf_a = Int2R(100) /\ ns.r_a = Rat(5, 100)
        /\ ns.cf_b = Int2R(50) /\ ns.r_b = Rat(10, 100)
        /\ ns.price = Rat(3000, 43)
        /\ Fmt2(ns.price) = 6977

C11_Witness ==
    /\ page = "page01" /\ pc = "done" /\ w.prob_a = 50
    /\ ns.price = Rat(3000, 43)

\* The price the toggle block gives for option i of the page's radio.
PriceOfOption(i) ==
    IF page = "Introduction"
    THEN SdfPrice(ns.m_u, ns.m_d, IntroOptions[i]).price
    ELSE RiskPremium(ns.m_u, ns.m_d, Page02Options[i]).price

\* The expected payoff 0.5*cf_u + 0.5*cf_d of option i.
PayoffOfOption(i) ==
    LET r == IF page = "Introduction"
             THEN SdfPrice(ns.m_u, ns.m_d, IntroOptions[i])
             ELSE RiskPremium(ns.m_u, ns.m_d, Page02Options[i])
        u == IF page = "Introduction" THEN r.cf_u ELSE r.x_u
        d == IF page = "Introduction" THEN r.cf_d ELSE r.x_d
    IN  RAdd(RMul(Half, u), RMul(Half, d))

\* C12: the two toggle options have the same expected payoff, and the one
\* that pays more in bad times (option 2) is priced strictly higher than the
\* one that pays more in good times (option 1).
C12_BadTimesPricedHigher ==
    SdfRan =>
        LET other == 3 - w.radio
            payoff == RAdd(RMul(Half, CfU), RMul(Half, CfD))
        IN  /\ payoff = PayoffOfOption(other)
            /\ CfU # CfD
            /\ w.radio = 2 => RLt(PriceOfOption(other), ns.price)
            /\ w.radio = 1 => RLt(ns.price, PriceOfOption(other))

C12_Witness ==
    /\ page = "Introduction" /\ SdfRan /\ w.radio = 2
    /\ ns.price = Rat(5, 4) /\ PriceOfOption(1) = Int2R(1)
    /\ PayoffOfOption(1) = Rat(3, 2)

\* A call of the two-state formula on a scenario the data model admits:
\* prob_a in [0, 1] and both rates above -1.
EngValidTwoState ==
    /\ eng.fn = "TwoStatePrice"
    /\ eng.prob_a \in ProbAMin..ProbAMax
    /\ 100 + eng.r_a > 0 /\ 100 + eng.r_b > 0

\* The two-state price of the call's scenario at the probability q/100.
EngPriceAt(q) ==
    TwoStatePrice(Int2R(eng.cf_a), Hundredths(eng.r_a),
                  Int2R(eng.cf_b), Hundredths(eng.r_b), Hundredths(q)).price

C16_DenominatorPositive ==
    EngValidTwoState =>
        LET den == RAdd(One, eng.res.expected_r)
        IN  /\ RLt(Int2R(0), den)
            /\ eng.res.exc = ""
            /\ IsBound(eng.res.price)
            /\ RMul(eng.res.price, den) = eng.res.expected_cf
            /\ (eng.r_a = 5 /\ eng.r_b = 10) =>
                   /\ RLeq(Rat(105, 100), den)
                   /\ RLeq(den, Rat(110, 100))

C16_Witness ==
    /\ EngValidTwoState /\ eng.r_a = 5 /\ eng.r_b = 10 /\ eng.prob_a = 100
    /\ RAdd(One, eng.res.expected_r) = Rat(105, 100)
    /\ IsBound(eng.res.price)

\* What pages/02's toggle block gives for option i of the radio.
DiagnosticsOfOption(i) == RiskPremium(ns.m_u, ns.m_d, Page02Options[i])

\* C17: on pages/02 the asset "Pays more in bad times" has a strictly lower
\* risk premium and a strictly higher price than the asset "Pays more in
\* good times"; st.success is shown exactly when "Pays more in bad times" is
\* selected, st.error otherwise.
C17_BadTimesLowerPremium ==
    DiagnosticsRan =>
        LET other == DiagnosticsOfOption(3 - w.radio)
            bad == ns.scenario = "Pays more in bad times"
        IN  /\ bad <=> w.radio = 2
            /\ bad => /\ RLt(ns.risk_premium, other.risk_premium)
                      /\ RLt(other.price, ns.price)
            /\ ~bad => /\ RLt(other.risk_premium, ns.risk_premium)
                       /\ RLt(ns.price, other.price)
            /\ (Shown("st.success") # {}) <=> bad
            /\ (Shown("st.error") # {}) <=> ~bad

C17_Witness ==
    /\ DiagnosticsRan /\ ns.scenario = "Pays more in bad times"
    /\ Shown("st.success") # {} /\ Shown("st.error") = {}
    /\ RLt(ns.risk_premium, DiagnosticsOfOption(1).risk_premium)

\* Cov(m, CF) = E[m*CF] - E[m]*E[CF] of the selected asset: the price is
\* E[m*CF].
Covariance == RSub(ns.price, RMul(ns.expected_m, ns.expected_x))

MApproxRan == page = "page02" /\ pc = "rf"

\* C19: m_approx = 1 - delta - gamma*delta_c is strictly decreasing in the
\* slider's delta_c: the run's value against the value at every other
\* position -0.10..0.10.
C19_MApproxDecreasing ==
    MApproxRan =>
        \A y \in DeltaCMin..DeltaCMax :
            LET my == MApprox(ns.delta, ns.gamma, Hundredths(y))
            IN  /\ w.delta_c < y => RLt(my, ns.m_approx)
                /\ y < w.delta_c => RLt(ns.m_approx, my)

C19_Witness ==
    /\ MApproxRan /\ w.delta_c = -3
    /\ RLt(MApprox(ns.delta, ns.gamma, Hundredths(4)), ns.m_approx)

\* C20: at every position of the slider m_approx is strictly positive,
\* between 0.77 and 1.17.
C20_MApproxPositive ==
    (page = "page02" /\ pc \in {"rf", "risk_premium", "done"}) =>
        /\ RLt(Int2R(0), ns.m_approx)
        /\ RLeq(Rat(77, 100), ns.m_approx)
        /\ RLeq(ns.m_approx, Rat(117, 100))
        /\ ns.m_approx = Rat(97 - 2 * w.delta_c, 100)
        /\ Shown("m_{t+1}") = {970 - 20 * w.delta_c}

C20_Witness ==
    /\ page = "page02" /\ pc = "rf" /\ w.delta_c = DeltaCMax
    /\ ns.m_approx = Rat(77, 100)

----------------------------------------------------------------------------
(* Properties of runs and sessions.                                        *)

\* The session of the kept run.
KeptSession == sess[memo.user]

\* The kept session has finished a run of the kept page with the kept
\* widget values.
SameRunAgain ==
    /\ memo.set
    /\ KeptSession.pc = "done"
    /\ KeptSession.page = memo.page
    /\ KeptSession.w = memo.w

SessTwoStateRan(s) ==
    s.page \in {"Introduction", "page01"} /\ s.pc \in {"charts", "sdf", "tradeoff", "done"}

SessTwoStateOut(s) == SubSeq(s.out, 1, 3)

SessSdfRan(s) ==
    \/ s.page = "Introduction" /\ s.pc \in {"tradeoff", "done"}
    \/ s.page = "page02" /\ s.pc = "done"

SessSdfOut(s) ==
    IF s.page = "Introduction" THEN <<SubSeq(s.out, 4, 6), s.ns.price>>
    ELSE <<SubSeq(s.out, 2, Len(s.out)), s.ns.price>>

SessTradeoffRan(s) == s.page = "Introduction" /\ s.pc = "done"

SessTradeoffOut(s) ==
    <<SubSeq(s.out, 7, 8), s.ns.transition_cost, s.ns.physical_damage>>

\* C14: in every interleaving of the users' runs, two sessions whose
\* prob_a agree display the same two-state price, two sessions on the same
\* page whose radio options agree have the same stochastic-discount-factor
\* price, and two sessions whose abatement agree have the same cost and
\* damage, whatever their other widgets hold and whatever the other
\* session is doing.
C14_Independent ==
    \A u \in Users : \A v \in Users :
        /\ (SessTwoStateRan(sess[u]) /\ SessTwoStateRan(sess[v])
              /\ sess[u].w.prob_a = sess[v].w.prob_a)
           => SessTwoStateOut(sess[u]) = SessTwoStateOut(sess[v])
        /\ (SessSdfRan(sess[u]) /\ SessSdfRan(sess[v])
              /\ sess[u].page = sess[v].page
              /\ sess[u].w.radio = sess[v].w.radio)
           => SessSdfOut(sess[u]) = SessSdfOut(sess[v])
        /\ (SessTradeoffRan(sess[u]) /\ SessTradeoffRan(sess[v])
              /\ sess[u].w.abatement = sess[v].w.abatement)
           => SessTradeoffOut(sess[u]) = SessTradeoffOut(sess[v])

\* Two users have finished runs of the Introduction with the same
\* abatement and different prob_a and radio options: the cost and damage
\* agree, the two-state prices and the toggle prices differ.
C14_Witness ==
    \E u \in Users : \E v \in Users :
        /\ SessTradeoffRan(sess[u]) /\ SessTradeoffRan(sess[v])
        /\ sess[u].w.abatement = sess[v].w.abatement
        /\ sess[u].w.abatement # AbatementDefault
        /\ sess[u].w.prob_a # sess[v].w.prob_a
        /\ sess[u].w.radio # sess[v].w.radio
        /\ SessTradeoffOut(sess[u]) = SessTradeoffOut(sess[v])
        /\ SessTwoStateOut(sess[u]) # SessTwoStateOut(sess[v])
        /\ SessSdfOut(sess[u]) # SessSdfOut(sess[v])

----------------------------------------------------------------------------
(* Properties of the displayed percentages, the reused names, the          *)
(* duplicated blocks and the simulated cash flows.                         *)

\* C21: for every abatement in 0..100 the 'Transition Cost (% GDP)' metric
\* shows at most 2% and the 'Physical Damages (% GDP)' metric shows at most
\* 1%.  A displayed percentage is counted in hundredths of a percent: 2% is
\* 200 and 1% is 100.
C21_Original ==
    TradeoffRan =>
        /\ \A v \in Shown("Transition Cost (% GDP)") : v <= 200
        /\ \A v \in Shown("Physical Damages (% GDP)") : v <= 100

\* The two-state price of the run's prob_a, computed anew.
TwoStatePriceOfRun ==
    TwoStatePrice(Int2R(100), Hundredths(5), Int2R(50), Hundredths(10),
                  Hundredths(w.prob_a)).price

\* C22: in every run each value is computed from the assignment just before
\* it, not from a leftover of a reused name.  In Introduction.py and
\* pages/01 the third value displayed is the two-state price of the run's
\* prob_a, also once the toggle block has bound price again; the toggle
\* block's cash flows are those of the radio's option, though the chart
\* loops left scenario = 'Hot House World' just before it.  In pages/02
\* m_approx, as computed and as displayed, is 1 - 0.03 - 2.0*delta_c, though
\* the loops left gamma = 20 before it and delta is 0.02 after it.
C22_NoLeftoverRead ==
    /\ (page \in {"Introduction", "page01"} /\ pc \notin {"two_state", "raised"})
       => /\ Len(out) >= 3
          /\ out[3] = <<"P_t", Fmt2(TwoStatePriceOfRun)>>
    /\ (page = "Introduction" /\ pc = "sdf")
       => ns.scenario = "Hot House World" /\ ns.price = TwoStatePriceOfRun
    /\ (page = "Introduction" /\ pc \in {"tradeoff", "done"})
       => /\ ns.scenario = IntroOptions[w.radio]
          /\ ns.cf_u = (IF w.radio = 1 THEN Int2R(2) ELSE Int2R(1))
          /\ ns.cf_d = (IF w.radio = 1 THEN Int2R(1) ELSE Int2R(2))
          /\ ns.price = SdfPrice(Rat(1, 2), Int2R(1), IntroOptions[w.radio]).price
          /\ out[6] = <<"P_t", Fmt2(ns.price)>>
    /\ (page = "page02" /\ pc = "m_approx") => ns.gamma = Int2R(20)
    /\ (page = "page02" /\ pc \in {"rf", "risk_premium", "done"})
       => /\ ns.m_approx = RSub(RSub(One, Hundredths(3)),
                                RMul(Int2R(2), Hundredths(w.delta_c)))
          /\ out[1] = <<"m_{t+1}", Fmt3(ns.m_approx)>>
    /\ (page = "page02" /\ pc \in {"risk_premium", "done"})
       => ns.delta = Hundredths(2)

\* A finished run of Introduction.py with the first radio option, where the
\* leftover scenario would have taken the other branch, and with price
\* bound again to a value other than the two-state price displayed.
C22_Witness ==
    /\ page = "Introduction" /\ pc = "done"
    /\ w.radio = 1 /\ w.prob_a = ProbAMax
    /\ ns.cf_u = Int2R(2)
    /\ ns.price = One
    /\ out[3] = <<"P_t", 9524>>

\* The price each copy of a duplicated block computes from the run's
\* widget values, and what it displays as P_t.
IntroTwoStateOfRun == IntroTwoStateBlock(EmptyNs, w)
Page01TwoStateOfRun == Page01TwoStateBlock(EmptyNs, w)
IntroSdfOfRun == IntroSdfBlock(EmptyNs, w)
Page02SdfOfRun == Page02RiskPremiumBlock(EmptyNs, w)

\* C23: the copies agree.  At every prob_a the two-state price of the run,
\* on either page, is the price Introduction.py computes and the price
\* pages/01 computes, displayed alike; for the radio's option (first: good
\* times, second: bad times) the toggle price of the run, on either page,
\* is the price Introduction.py computes and the price pages/02 computes.
C23_CopiesAgree ==
    /\ TwoStateRan
       => /\ ns.price = IntroTwoStateOfRun.ns.price
          /\ ns.price = Page01TwoStateOfRun.ns.price
          /\ IntroTwoStateOfRun.shown = Page01TwoStateOfRun.shown
          /\ IntroTwoStateOfRun.exc = "" /\ Page01TwoStateOfRun.exc = ""
    /\ SdfRan
       => /\ ns.price = IntroSdfOfRun.ns.price
          /\ ns.price = Page02SdfOfRun.ns.price
          /\ IntroSdfOfRun.ns.cf_u = Page02SdfOfRun.ns.x_u
          /\ IntroSdfOfRun.ns.cf_d = Page02SdfOfRun.ns.x_d

\* A finished run of pages/01 away from the default, with the price
\* Introduction.py computes at that prob_a: 50 / 1.10.
C23_Witness ==
    /\ page = "page01" /\ pc = "done" /\ w.prob_a = ProbAMin
    /\ ns.price = Rat(500, 11)
    /\ IntroTwoStateOfRun.ns.price = Rat(500, 11)

\* The expressions of the cash-flow block that have been computed in full,
\* and the elements of the one being computed.
GdpRunning == eng.fn = "gdp"
GdpStageNo(st) ==
    CASE st = "assign" -> 1 [] st = "clip" -> 2 [] st = "abs" -> 3
      [] st = "norm" -> 4 [] st = "cf_hedging" -> 5 [] st = "cf_exposed" -> 6
      [] st = "done" -> 7
\* The element of year y of the expression st has been computed.
GdpHas(st, y) ==
    /\ GdpRunning
    /\ \/ GdpStageNo(eng.stage) > GdpStageNo(st)
       \/ eng.stage = st /\ y < eng.k

\* gdp_loss as the text of the scripts gives it.
GdpLossOf(y) == IF y < LossStart THEN Int2R(0) ELSE Rat(-(y - LossStart), 10)

\* C24: for every year 2020..2050, gdp_loss is 0 before 2030 and
\* -0.1*(year-2030) from 2030 on, within [-5, 0], and the clip leaves it
\* as it was; max - min of |gdp_loss| is not zero; gdp_loss_norm is within
\* [0, 1]; of two years the one with the larger loss has the larger or
\* equal cf_hedging and the smaller or equal cf_exposed; and cf_hedging +
\* cf_exposed = 2.
C24_SimulatedCashFlows ==
    \A y \in Years :
        /\ GdpHas("assign", y)
           => /\ eng.gdp_loss[y] = GdpLossOf(y)
              /\ RLeq(Int2R(-5), eng.gdp_loss[y])
              /\ RLeq(eng.gdp_loss[y], Int2R(0))
              /\ NpClip(eng.gdp_loss[y], Int2R(-5), Int2R(0)) = eng.gdp_loss[y]
        /\ GdpHas("abs", YearLast)
           => ~RIsZero(RSub(NpMax(eng.gdp_loss_abs), NpMin(eng.gdp_loss_abs)))
        /\ GdpHas("norm", y)
           => /\ IsBound(eng.gdp_loss_norm[y])
              /\ RLeq(Int2R(0), eng.gdp_loss_norm[y])
              /\ RLeq(eng.gdp_loss_norm[y], One)
        /\ \A z \in Years :
              (GdpHas("cf_exposed", y) /\ GdpHas("cf_exposed", z)
                 /\ RLeq(eng.gdp_loss_abs[y], eng.gdp_loss_abs[z]))
              => /\ RLeq(eng.cf_hedging[y], eng.cf_hedging[z])
                 /\ RLeq(eng.cf_exposed[z], eng.cf_exposed[y])
        /\ GdpHas("cf_exposed", y)
           => RAdd(eng.cf_hedging[y], eng.cf_exposed[y]) = Int2R(2)

\* The block has run to its end: the loss of 2050 is -2, the largest, and
\* the cash flows of that year are 1.5 and 0.5; those of 2040 are 1.25 and
\* 0.75.
C24_Witness ==
    /\ GdpAt(eng, "done")
    /\ eng.gdp_loss[YearLast] = Int2R(-2)
    /\ eng.gdp_loss_norm[YearLast] = One
    /\ eng.cf_hedging[YearLast] = Rat(3, 2) /\ eng.cf_exposed[YearLast] = Half
    /\ eng.cf_hedging[2040] = Rat(5, 4) /\ eng.cf_exposed[2040] = Rat(3, 4)

====
